---- MODULE Spec2Model ----
(***************************************************************************)
(* yoink: FileProcessor::process and the per-file tasks it runs in         *)
(* parallel (src/src/file_processor.rs), with the collaborators it calls:  *)
(* DirectoryTreeBuilder::build_directory_tree, FileScanner::collect_files, *)
(* TextProcessing::process_file / format_text_content and                  *)
(* ClipboardInterface::copy_to_clipboard.                                  *)
(*                                                                         *)
(* The document buffer is a sequence of pieces, one per push_str call.     *)
(* A path is a natural number; the order of the numbers is the Ord order   *)
(* of the PathBufs they stand for (files of one directory).                *)
(***************************************************************************)
EXTENDS Integers, Sequences, FiniteSets

\* Largest number of files the walk of the root directory yields.
MaxFiles == 2

\* The configured size limit, in bytes.
SizeLimit == 1

Paths == 1..MaxFiles
Slots == 1..MaxFiles

VARIABLES
    rootExists,    \* environment: PathBuf::from(config.path).exists()
    sort,          \* config.sort
    search,        \* config.search_text.is_some()
    verbose,       \* config.verbose
    pc,            \* position of process(): init, collect, par, sink, done
    entries,       \* the Vec<FileEntry> the parallel loop iterates over
    buffer,        \* Arc<Mutex<String>>: the pieces pushed so far
    text_count,    \* Arc<Mutex<usize>>
    binary_count,  \* Arc<Mutex<usize>>
    bufferLock,    \* holder of the buffer mutex (0: free, MainThread, or a task)
    textLock,      \* holder of the text_count mutex
    binaryLock,    \* holder of the binary_count mutex
    progressLock,  \* holder of the mutex of the file progress bar
    tpc,           \* position of the closure run for entries[i]
    tmp,           \* the value a task read from a counter for `+= 1`
    outcome,       \* the branch of process_file_parallel the task took
    fsize,         \* metadata.len() as the task read it (0: not read)
    evals,         \* how many times the closure was entered for entries[i]
    counts,        \* the locals text_count, binary_count read at the footer
    sinkCalls,     \* number of copy_to_clipboard calls
    sinkArg,       \* the text the sink received
    sinkReply,     \* what the sink answered: none, ok, rejected
    result,        \* what process() returned
    cls,           \* one call of TextProcessor::process_file, taken on its own
    fmt,           \* one call of TextProcessor::format_text_content
    flt            \* one walk of a directory by the tree builder and the scanner

vars == <<rootExists, sort, search, verbose, pc, entries, buffer, text_count,
          binary_count, bufferLock, textLock, binaryLock, progressLock, tpc,
          tmp, outcome, fsize, evals, counts, sinkCalls, sinkArg, sinkReply,
          result, cls, fmt, flt>>

env == <<rootExists, sort, search, verbose, cls, fmt, flt>>
locks == <<bufferLock, textLock, binaryLock, progressLock>>
sink == <<sinkCalls, sinkArg, sinkReply>>

\* Holder id of the thread that runs process() itself.
MainThread == MaxFiles + 1

-----------------------------------------------------------------------------
\* Values

NoResult == [tag |-> "none", text |-> 0, binary |-> 0, msg |-> ""]
Ok(tc, bc) == [tag |-> "Ok", text |-> tc, binary |-> bc, msg |-> ""]
Err(m) == [tag |-> "Err", text |-> 0, binary |-> 0, msg |-> m]

\* Pieces of the document, one per push_str.
Piece(kind, arg) == <<kind, arg>>
TreePieces == <<Piece("dirhdr", 0), Piece("tree", 0), Piece("texthdr", 0)>>
FooterPieces(tc, bc) == <<Piece("summary", 0), Piece("textline", tc), Piece("binline", bc)>>
SectionKinds == {"hdr", "body", "end"}

\* Every order in which WalkDir can yield up to MaxFiles files of the root.
Walks == {w \in UNION {[1..n -> Paths] : n \in 0..MaxFiles} :
            \A a, b \in DOMAIN w : a # b => w[a] # w[b]}

\* Ord on PathBuf, for two files of the same directory.
PathLess(p, q) == p < q

RECURSIVE Insert(_, _)
Insert(p, s) ==
    IF s = <<>> THEN <<p>>
    ELSE IF PathLess(p, Head(s)) THEN <<p>> \o s
    ELSE <<Head(s)>> \o Insert(p, Tail(s))

\* entries.sort_by_key(|e| e.path().to_path_buf())
RECURSIVE SortByPath(_)
SortByPath(s) == IF s = <<>> THEN <<>> ELSE Insert(Head(s), SortByPath(Tail(s)))

\* A parallel loop that drops the last item.
TasksButLast == {i \in DOMAIN entries : i < Len(entries)}

\* The items entries.par_iter() hands to the closure.
Tasks == DOMAIN entries

\* Mutex::lock() returns when nobody holds the mutex.
LockFree(holder) == holder = 0

\* for_each returns when the closure has returned for every item.
AllTasksDone == \A i \in Tasks : tpc[i] = "done"

-----------------------------------------------------------------------------
\* The state of one FileProcessor before process() is called.
Constructed ==
    /\ pc = "init"
    /\ entries = <<>>
    /\ buffer = <<>>
    /\ text_count = 0
    /\ binary_count = 0
    /\ bufferLock = 0
    /\ textLock = 0
    /\ binaryLock = 0
    /\ progressLock = 0
    /\ tpc = [i \in Slots |-> "start"]
    /\ tmp = [i \in Slots |-> 0]
    /\ outcome = [i \in Slots |-> "pending"]
    /\ fsize = [i \in Slots |-> 0]
    /\ evals = [i \in Slots |-> 0]
    /\ counts = <<0, 0>>
    /\ sinkCalls = 0
    /\ sinkArg = <<>>
    /\ sinkReply = "none"
    /\ result = NoResult

\* The value of a stand-alone call's variable while process() is what runs.
NoCall == [step |-> "none"]

Init ==
    /\ rootExists \in BOOLEAN
    /\ sort \in BOOLEAN
    /\ search \in BOOLEAN
    /\ verbose \in BOOLEAN
    /\ Constructed
    /\ cls = NoCall
    /\ fmt = NoCall
    /\ flt = NoCall

-----------------------------------------------------------------------------
\* process(), the thread that calls it

\* The tree built without the check that the root exists.
BuildTreeNoCheck ==
    /\ pc = "init"
    /\ LockFree(bufferLock)
    /\ buffer' = buffer \o TreePieces
    /\ pc' = "collect"
    /\ UNCHANGED <<env, fsize, entries, text_count, binary_count, locks, tpc, tmp,
                   outcome, evals, counts, sink, result>>

\* Lines 59-65: the tree at the top of the buffer; build_directory_tree fails
\* when the root does not exist and `?` returns its error, dropping the buffer.
BuildTree ==
    /\ pc = "init"
    /\ LockFree(bufferLock)
    /\ IF rootExists
       THEN /\ buffer' = buffer \o TreePieces
            /\ pc' = "collect"
            /\ result' = result
       ELSE /\ buffer' = <<>>
            /\ pc' = "done"
            /\ result' = Err("Path does not exist")
    /\ UNCHANGED <<env, fsize, entries, text_count, binary_count, locks, tpc, tmp,
                   outcome, evals, counts, sink>>

\* Lines 67-75: collect_files (an empty Vec when the root does not exist),
\* sorted by path when config.sort is set.
CollectFiles ==
    /\ pc = "collect"
    /\ \E w \in Walks :
         LET found == IF rootExists THEN w ELSE <<>>
         IN  entries' = IF sort THEN SortByPath(found) ELSE found
    /\ pc' = "par"
    /\ UNCHANGED <<env, fsize, buffer, text_count, binary_count, locks, tpc, tmp,
                   outcome, evals, counts, sink, result>>

\* The footer written without waiting for the tasks.
FooterNoJoin ==
    /\ pc = "par"
    /\ LockFree(bufferLock) /\ LockFree(textLock) /\ LockFree(binaryLock)
    /\ bufferLock' = MainThread
    /\ counts' = <<text_count, binary_count>>
    /\ buffer' = buffer \o FooterPieces(text_count, binary_count)
    /\ pc' = "sink"
    /\ UNCHANGED <<env, fsize, entries, text_count, binary_count, textLock, binaryLock,
                   progressLock, tpc, tmp, outcome, evals, sink, result>>

\* Lines 101-108: after for_each has returned, the footer with the two counts.
Footer ==
    /\ pc = "par"
    /\ AllTasksDone
    /\ LockFree(bufferLock) /\ LockFree(textLock) /\ LockFree(binaryLock)
    /\ bufferLock' = MainThread
    /\ counts' = <<text_count, binary_count>>
    /\ buffer' = buffer \o FooterPieces(text_count, binary_count)
    /\ pc' = "sink"
    /\ UNCHANGED <<env, fsize, entries, text_count, binary_count, textLock, binaryLock,
                   progressLock, tpc, tmp, outcome, evals, sink, result>>

\* The sink's answer dropped instead of returned.
CopyToClipboardIgnoresFailure ==
    /\ pc = "sink"
    /\ LockFree(progressLock)
    /\ \E ok \in BOOLEAN :
         /\ sinkReply' = IF ok THEN "ok" ELSE "rejected"
         /\ result' = Ok(counts[1], counts[2])
    /\ sinkCalls' = sinkCalls + 1
    /\ sinkArg' = buffer
    /\ bufferLock' = 0
    /\ pc' = "done"
    /\ UNCHANGED <<env, fsize, entries, buffer, text_count, binary_count, textLock,
                   binaryLock, progressLock, tpc, tmp, outcome, evals, counts>>

\* Lines 110-115: the progress bar is cleared under its mutex, taken and
\* dropped in one statement, and the buffer goes to the clipboard; `?` returns
\* the sink's failure, otherwise the counts read at the footer are returned.
CopyToClipboard ==
    /\ pc = "sink"
    /\ LockFree(progressLock)
    /\ \E ok \in BOOLEAN :
         /\ sinkReply' = IF ok THEN "ok" ELSE "rejected"
         /\ result' = IF ok THEN Ok(counts[1], counts[2])
                       ELSE Err("No clipboard utility found")
    /\ sinkCalls' = sinkCalls + 1
    /\ sinkArg' = buffer
    /\ bufferLock' = 0
    /\ pc' = "done"
    /\ UNCHANGED <<env, fsize, entries, buffer, text_count, binary_count, textLock,
                   binaryLock, progressLock, tpc, tmp, outcome, evals, counts>>

-----------------------------------------------------------------------------
\* The closure of entries.par_iter().for_each, run once per item (lines 78-99),
\* and process_file_parallel (lines 119-189) which it calls.

\* A closure that takes the buffer guard before it looks at the file.
BeginHoldsBuffer(i) ==
    /\ pc = "par"
    /\ i \in Tasks
    /\ tpc[i] = "start"
    /\ LockFree(bufferLock)
    /\ bufferLock' = i
    /\ tpc' = [tpc EXCEPT ![i] = "stat"]
    /\ evals' = [evals EXCEPT ![i] = @ + 1]
    /\ UNCHANGED <<env, fsize, pc, entries, buffer, text_count, binary_count,
                   textLock, binaryLock, progressLock, tmp, outcome, counts, sink,
                   result>>

\* Lines 78-82: a worker enters the closure for entries[i].
Begin(i) ==
    /\ pc = "par"
    /\ i \in Tasks
    /\ tpc[i] = "start"
    /\ tpc' = [tpc EXCEPT ![i] = "stat"]
    /\ evals' = [evals EXCEPT ![i] = @ + 1]
    /\ UNCHANGED <<env, fsize, pc, entries, buffer, text_count, binary_count, locks,
                   tmp, outcome, counts, sink, result>>

\* config.max_size
max_size == SizeLimit

\* The lengths metadata() reports: a file at the limit and one a byte over it.
FileSizes == {max_size, max_size + 1}

\* The size rule with the limit itself counted as too large.
OverLimitInclusive(len) == len >= max_size

\* Line 142: metadata.len() > self.config.max_size
OverLimit(len) == len > max_size

\* Lines 127-149: is_file, metadata and the size limit.  Not a file and over
\* the limit return Ok(()), a metadata failure returns Err; a verbose run
\* prints the file that is over the limit on the progress bar first.
StatFile(i) ==
    /\ tpc[i] = "stat"
    /\ \E st \in {"notfile", "metaerr", "file"}, len \in FileSizes :
         LET br == CASE st # "file" -> st
                     [] OverLimit(len) -> "oversize"
                     [] OTHER -> "ok"
         IN  /\ tpc' = [tpc EXCEPT ![i] =
                          CASE br = "ok" -> "process"
                            [] br = "metaerr" -> "report"
                            [] br = "oversize" /\ verbose -> "print_large"
                            [] OTHER -> "inc"]
             /\ outcome' = [outcome EXCEPT ![i] = IF br = "ok" THEN @ ELSE br]
             /\ fsize' = [fsize EXCEPT ![i] = IF st = "file" THEN len ELSE @]
    /\ UNCHANGED <<env, pc, entries, buffer, text_count, binary_count, locks,
                   tmp, evals, counts, sink, result>>

\* Lines 152-154 and TextProcessor::process_file: Ok(Some(content)) for a text
\* file that was read, Ok(None) for a binary file and for a file that could
\* not be read or decoded, Err when the implementation reports one.
ProcessFile(i) ==
    /\ tpc[i] = "process"
    /\ \E r \in {"some", "binary", "unreadable", "procerr"} :
         /\ tpc' = [tpc EXCEPT ![i] =
                      CASE r = "some" -> "lockbuf"
                        [] r = "procerr" -> "report"
                        [] OTHER -> "lockbin"]
         /\ outcome' = [outcome EXCEPT ![i] = IF r = "some" THEN @ ELSE r]
    /\ UNCHANGED <<env, fsize, pc, entries, buffer, text_count, binary_count, locks,
                   tmp, evals, counts, sink, result>>

\* The buffer written without waiting for its mutex.
LockBufferNoExclusion(i) ==
    /\ tpc[i] = "lockbuf"
    /\ bufferLock' = i
    /\ tpc' = [tpc EXCEPT ![i] = "format"]
    /\ UNCHANGED <<env, fsize, pc, entries, buffer, text_count, binary_count, textLock,
                   binaryLock, progressLock, tmp, outcome, evals, counts, sink, result>>

\* Line 157: buffer.lock()
LockBuffer(i) ==
    /\ tpc[i] = "lockbuf"
    /\ LockFree(bufferLock)
    /\ bufferLock' = i
    /\ tpc' = [tpc EXCEPT ![i] = "format"]
    /\ UNCHANGED <<env, fsize, pc, entries, buffer, text_count, binary_count, textLock,
                   binaryLock, progressLock, tmp, outcome, evals, counts, sink, result>>

\* Line 158, format_text_content up to its first push: in search mode a
\* content without the query returns Ok(false) and writes nothing; an Err
\* leaves process_file_parallel through `?`.  Both drop the buffer guard.
\* Otherwise the header of the section is pushed.
FormatHeader(i) ==
    /\ tpc[i] = "format"
    /\ \E r \in {"text", "fmterr"} \cup (IF search THEN {"excluded"} ELSE {}) :
         /\ outcome' = [outcome EXCEPT ![i] = r]
         /\ IF r = "text"
            THEN /\ buffer' = Append(buffer, Piece("hdr", entries[i]))
                 /\ tpc' = [tpc EXCEPT ![i] = "body"]
                 /\ bufferLock' = bufferLock
            ELSE /\ buffer' = buffer
                 /\ tpc' = [tpc EXCEPT ![i] = IF r = "fmterr" THEN "report" ELSE "inc"]
                 /\ bufferLock' = 0
    /\ UNCHANGED <<env, fsize, pc, entries, text_count, binary_count, textLock,
                   binaryLock, progressLock, tmp, evals, counts, sink, result>>

\* format_text_content: the content, or the numbered lines of the excerpt.
FormatBody(i) ==
    /\ tpc[i] = "body"
    /\ buffer' = Append(buffer, Piece("body", entries[i]))
    /\ tpc' = [tpc EXCEPT ![i] = "trail"]
    /\ UNCHANGED <<env, fsize, pc, entries, text_count, binary_count, locks, tmp,
                   outcome, evals, counts, sink, result>>

\* A buffer guard that is dropped as soon as format_text_content returns.
FormatEndDropsBuffer(i) ==
    /\ tpc[i] = "trail"
    /\ buffer' = Append(buffer, Piece("end", entries[i]))
    /\ bufferLock' = 0
    /\ tpc' = [tpc EXCEPT ![i] = "locktext"]
    /\ UNCHANGED <<env, fsize, pc, entries, text_count, binary_count, textLock,
                   binaryLock, progressLock, tmp, outcome, evals, counts, sink,
                   result>>

\* format_text_content: the blank line that ends the section; returns Ok(true).
FormatEnd(i) ==
    /\ tpc[i] = "trail"
    /\ buffer' = Append(buffer, Piece("end", entries[i]))
    /\ tpc' = [tpc EXCEPT ![i] = "locktext"]
    /\ UNCHANGED <<env, fsize, pc, entries, text_count, binary_count, locks, tmp,
                   outcome, evals, counts, sink, result>>

\* Line 162: text_count.lock(), the buffer guard still held.
LockText(i) ==
    /\ tpc[i] = "locktext"
    /\ LockFree(textLock)
    /\ textLock' = i
    /\ tpc' = [tpc EXCEPT ![i] = "readtext"]
    /\ UNCHANGED <<env, fsize, pc, entries, buffer, text_count, binary_count,
                   bufferLock, binaryLock, progressLock, tmp, outcome, evals, counts, sink, result>>

\* Line 163, `*text_count += 1`: the read.
ReadText(i) ==
    /\ tpc[i] = "readtext"
    /\ tmp' = [tmp EXCEPT ![i] = text_count]
    /\ tpc' = [tpc EXCEPT ![i] = "writetext"]
    /\ UNCHANGED <<env, fsize, pc, entries, buffer, text_count, binary_count, locks,
                   outcome, evals, counts, sink, result>>

\* Line 163, the write, which ends the life of the value read.  A verbose run goes on to print on the progress bar
\* with both guards held (lines 165-169); otherwise lines 170-171 drop the
\* text_count guard, then the buffer guard.
WriteText(i) ==
    /\ tpc[i] = "writetext"
    /\ text_count' = tmp[i] + 1
    /\ tmp' = [tmp EXCEPT ![i] = 0]
    /\ IF verbose
       THEN /\ UNCHANGED <<textLock, bufferLock>>
            /\ tpc' = [tpc EXCEPT ![i] = "print_text"]
       ELSE /\ textLock' = 0
            /\ bufferLock' = 0
            /\ tpc' = [tpc EXCEPT ![i] = "inc"]
    /\ UNCHANGED <<env, fsize, pc, entries, buffer, binary_count, binaryLock,
                   progressLock, outcome, evals, counts, sink, result>>

\* The counter updated without waiting for its mutex.
LockBinaryNoExclusion(i) ==
    /\ tpc[i] = "lockbin"
    /\ binaryLock' = i
    /\ tpc' = [tpc EXCEPT ![i] = "readbin"]
    /\ UNCHANGED <<env, fsize, pc, entries, buffer, text_count, binary_count,
                   bufferLock, textLock, progressLock, tmp, outcome, evals, counts, sink, result>>

\* Line 174: binary_count.lock()
LockBinary(i) ==
    /\ tpc[i] = "lockbin"
    /\ LockFree(binaryLock)
    /\ binaryLock' = i
    /\ tpc' = [tpc EXCEPT ![i] = "readbin"]
    /\ UNCHANGED <<env, fsize, pc, entries, buffer, text_count, binary_count,
                   bufferLock, textLock, progressLock, tmp, outcome, evals, counts, sink, result>>

\* Line 175, `*binary_count += 1`: the read.
ReadBinary(i) ==
    /\ tpc[i] = "readbin"
    /\ tmp' = [tmp EXCEPT ![i] = binary_count]
    /\ tpc' = [tpc EXCEPT ![i] = "writebin"]
    /\ UNCHANGED <<env, fsize, pc, entries, buffer, text_count, binary_count, locks,
                   outcome, evals, counts, sink, result>>

\* Line 175, the write, which ends the life of the value read.  A verbose run goes on to print on the progress bar
\* with the guard held (lines 177-181); otherwise line 182 drops the guard.
WriteBinary(i) ==
    /\ tpc[i] = "writebin"
    /\ binary_count' = tmp[i] + 1
    /\ tmp' = [tmp EXCEPT ![i] = 0]
    /\ IF verbose
       THEN /\ binaryLock' = binaryLock
            /\ tpc' = [tpc EXCEPT ![i] = "print_bin"]
       ELSE /\ binaryLock' = 0
            /\ tpc' = [tpc EXCEPT ![i] = "inc"]
    /\ UNCHANGED <<env, fsize, pc, entries, buffer, text_count, bufferLock, textLock,
                   progressLock, outcome, evals, counts, sink, result>>

\* A verbose message of a text file after which the buffer guard is kept.
PrintVerboseKeepsBuffer(i) ==
    /\ tpc[i] \in {"held_print_large", "held_print_text", "held_print_bin"}
    /\ progressLock' = 0
    /\ textLock' = IF tpc[i] = "held_print_text" THEN 0 ELSE textLock
    /\ binaryLock' = IF tpc[i] = "held_print_bin" THEN 0 ELSE binaryLock
    /\ tpc' = [tpc EXCEPT ![i] = "inc"]
    /\ UNCHANGED <<env, fsize, pc, entries, buffer, text_count, binary_count,
                   bufferLock, tmp, outcome, evals, counts, sink, result>>

\* The places where a task calls progress.lock() for a verbose message
\* (lines 144, 166, 178).
WantsProgress == {"print_large", "print_text", "print_bin"}

\* The position of a task that holds the progress guard it asked for at `at`.
Held(at) == "held_" \o at

\* progress.lock() at one of those places.
LockProgress(i) ==
    /\ tpc[i] \in WantsProgress
    /\ LockFree(progressLock)
    /\ progressLock' = i
    /\ tpc' = [tpc EXCEPT ![i] = Held(@)]
    /\ UNCHANGED <<env, fsize, pc, entries, buffer, text_count, binary_count,
                   bufferLock, textLock, binaryLock, tmp, outcome, evals, counts,
                   sink, result>>

\* Lines 143-148, 165-171, 177-182: println of a verbose message; the progress
\* guard is a temporary of the statement and is dropped first, then the
\* guards of the match arm (text_count and buffer, or binary_count).
PrintVerbose(i) ==
    /\ tpc[i] \in {Held("print_large"), Held("print_text"), Held("print_bin")}
    /\ progressLock' = 0
    /\ textLock' = IF tpc[i] = Held("print_text") THEN 0 ELSE textLock
    /\ bufferLock' = IF tpc[i] = Held("print_text") THEN 0 ELSE bufferLock
    /\ binaryLock' = IF tpc[i] = Held("print_bin") THEN 0 ELSE binaryLock
    /\ tpc' = [tpc EXCEPT ![i] = "inc"]
    /\ UNCHANGED <<env, fsize, pc, entries, buffer, text_count, binary_count,
                   tmp, outcome, evals, counts, sink, result>>

\* An Err of one file returned from process() as the result of the run.
ReportAborts(i) ==
    /\ tpc[i] = "report"
    /\ pc = "par"
    /\ LockFree(progressLock)
    /\ tpc' = [tpc EXCEPT ![i] = "done"]
    /\ pc' = "done"
    /\ result' = Err("Error processing file")
    /\ UNCHANGED <<env, fsize, entries, buffer, text_count, binary_count, locks,
                   tmp, outcome, evals, counts, sink>>

\* Lines 85-94: an Err of process_file_parallel is printed on the progress
\* bar and goes no further.  The task holds no other guard here and the block
\* touches the progress bar only, so progress.lock(), println and the drop of
\* the guard at the end of the block are one step, taken when the mutex is
\* free.
Report(i) ==
    /\ tpc[i] = "report"
    /\ LockFree(progressLock)
    /\ tpc' = [tpc EXCEPT ![i] = "inc"]
    /\ UNCHANGED <<env, fsize, pc, entries, buffer, text_count, binary_count, locks,
                   tmp, outcome, evals, counts, sink, result>>

\* Lines 96-99: progress.lock(), inc(1) and the drop of the guard as the
\* closure returns, one step for the same reason.
ProgressInc(i) ==
    /\ tpc[i] = "inc"
    /\ LockFree(progressLock)
    /\ tpc' = [tpc EXCEPT ![i] = "done"]
    /\ UNCHANGED <<env, fsize, pc, entries, buffer, text_count, binary_count, locks,
                   tmp, outcome, evals, counts, sink, result>>

Task(i) ==
    \/ Begin(i)
    \/ StatFile(i)
    \/ ProcessFile(i)
    \/ LockBuffer(i)
    \/ FormatHeader(i)
    \/ FormatBody(i)
    \/ FormatEnd(i)
    \/ LockText(i)
    \/ ReadText(i)
    \/ WriteText(i)
    \/ LockBinary(i)
    \/ ReadBinary(i)
    \/ WriteBinary(i)
    \/ LockProgress(i)
    \/ PrintVerbose(i)
    \/ Report(i)
    \/ ProgressInc(i)

Next ==
    \/ BuildTree
    \/ CollectFiles
    \/ \E i \in Slots : Task(i)
    \/ Footer
    \/ CopyToClipboard

Spec == Init /\ [][Next]_vars

-----------------------------------------------------------------------------
\* Properties

\* The index of path p in the list the parallel loop iterates over.
EntryIndex(p) == CHOOSE i \in DOMAIN entries : entries[i] = p

\* The positions of the section headers in a document.
Headers(doc) == {a \in DOMAIN doc : doc[a][1] = "hdr"}

FooterPresent(doc) == \E a \in DOMAIN doc : doc[a][1] = "summary"

Finished == (pc = "par" /\ AllTasksDone) \/ pc \in {"sink", "done"}

TextBranch == {i \in DOMAIN entries : outcome[i] = "text"}
BinaryBranch == {i \in DOMAIN entries : outcome[i] \in {"binary", "unreadable"}}

\* C1: the sections of the shared document stand in the commit order of the
\* entry list, whatever the order in which the tasks reach the buffer.
C1_CommitOrder ==
    \A a, b \in Headers(buffer) :
        a < b => EntryIndex(buffer[a][2]) < EntryIndex(buffer[b][2])

\* C2: with sort set, the sections of the document handed to the sink stand
\* in ascending path order.
C2_SortedDocument ==
    (sort /\ sinkCalls > 0) =>
        \A a, b \in Headers(sinkArg) :
            a < b => PathLess(sinkArg[a][2], sinkArg[b][2])

\* C3: once every task has finished, text_count is the number of tasks that
\* wrote a text section and binary_count the number that took the binary
\* branch; the pair process returns is the pair of the summary footer.
C3_NoLostUpdate ==
    /\ Finished =>
         /\ text_count = Cardinality(TextBranch)
         /\ binary_count = Cardinality(BinaryBranch)
    /\ result.tag = "Ok" =>
         /\ result.text = text_count
         /\ result.binary = binary_count
         /\ Len(sinkArg) >= 3
         /\ SubSeq(sinkArg, Len(sinkArg) - 2, Len(sinkArg))
              = FooterPieces(result.text, result.binary)

C3_Witness ==
    /\ pc = "done"
    /\ result.tag = "Ok"
    /\ result.binary = 2

\* C4: the closure is entered at most once per entry, only for entries of
\* the list, and exactly once for each of them by the time the loop has
\* returned; no path has two sections.
C4_EvaluatedOnce ==
    /\ \A i \in Slots : evals[i] <= 1 /\ (i \notin DOMAIN entries => evals[i] = 0)
    /\ pc \in {"sink", "done"} =>
         \A i \in DOMAIN entries : evals[i] = 1 /\ tpc[i] = "done"
    /\ \A a, b \in Headers(buffer) : buffer[a][2] = buffer[b][2] => a = b

C4_Witness ==
    /\ pc = "done"
    /\ Len(entries) >= 2
    /\ Cardinality(Headers(buffer)) >= 2

\* The files that end in neither counted branch.
SkippedKinds == {"notfile", "metaerr", "oversize", "procerr", "unreadable",
                 "excluded", "fmterr"}
skipped_count == Cardinality({i \in DOMAIN entries : outcome[i] \in SkippedKinds})

\* C5: at the end of a run text_count + binary_count + skipped_count is the
\* number of collected files, a file that could not be read being a skip.
C5_CountsPartition ==
    (pc = "done" /\ result.tag = "Ok") =>
        result.text + result.binary + skipped_count = Len(entries)

\* The tasks that are between buffer.lock() and the drop of its guard.
InBuffer == {i \in Slots : tpc[i] \in {"format", "body", "trail", "locktext",
                                        "readtext", "writetext", "print_text",
                                        Held("print_text")}}

\* C6: at most one task is inside the region that writes the buffer, and
\* the pieces of a section are adjacent: a header is followed by the body of
\* the same file and the body by its end, with nothing of another section
\* between them.
C6_SectionsContiguous ==
    /\ Cardinality(InBuffer) <= 1
    /\ \A i \in InBuffer : bufferLock = i
    /\ \A a \in DOMAIN buffer :
         /\ buffer[a][1] = "body" => a > 1 /\ buffer[a - 1] = Piece("hdr", buffer[a][2])
         /\ buffer[a][1] = "end" => a > 1 /\ buffer[a - 1] = Piece("body", buffer[a][2])
         /\ (buffer[a][1] = "hdr" /\ a < Len(buffer)) =>
                buffer[a + 1] = Piece("body", buffer[a][2])
         /\ (buffer[a][1] = "body" /\ a < Len(buffer)) =>
                buffer[a + 1] = Piece("end", buffer[a][2])

C6_Witness ==
    \E i, j \in Slots :
        /\ tpc[i] = "trail"
        /\ tpc[j] = "lockbuf"
        /\ buffer[Len(buffer)] = Piece("body", entries[i])

\* C7: the document starts with the tree listing, the sections follow it,
\* and the footer, written only when every task has finished, is its last
\* three pieces; the sink is called at most once, with the whole document,
\* and exactly once in a run whose root exists.
C7_Layout ==
    /\ buffer # <<>> => (Len(buffer) >= 3 /\ SubSeq(buffer, 1, 3) = TreePieces)
    /\ \A a \in DOMAIN buffer :
         /\ buffer[a][1] \in SectionKinds => a > 3
         /\ buffer[a][1] = "summary" =>
              /\ a = Len(buffer) - 2
              /\ AllTasksDone
              /\ pc \in {"sink", "done"}
    /\ sinkCalls <= 1
    /\ sinkCalls = 1 => (pc = "done" /\ sinkArg = buffer /\ FooterPresent(sinkArg))
    /\ (pc = "done" /\ rootExists) => sinkCalls = 1

C7_Witness ==
    /\ pc = "done"
    /\ sinkCalls = 1
    /\ Cardinality(Headers(sinkArg)) >= 1
    /\ FooterPresent(sinkArg)

\* C8: when the root does not exist the run goes from its start straight to
\* an Err result: nothing is collected, no task is entered, no counter
\* moves, no document exists and the sink is not called.
C8_RootMissingFailsFast ==
    ~rootExists =>
        /\ pc \in {"init", "done"}
        /\ pc = "done" => result = Err("Path does not exist")
        /\ entries = <<>>
        /\ \A i \in Slots : evals[i] = 0 /\ tpc[i] = "start"
        /\ text_count = 0 /\ binary_count = 0
        /\ buffer = <<>>
        /\ sinkCalls = 0 /\ sinkArg = <<>>

C8_Witness ==
    /\ ~rootExists
    /\ pc = "done"
    /\ result.tag = "Err"

\* The branches in which one file failed or was skipped.
FailureKinds == {"metaerr", "procerr", "fmterr", "unreadable", "oversize"}

\* C9: process returns Err only for a missing root or a rejecting sink; a
\* run whose root exists ends with every entry processed, the footer
\* written and the sink called, whatever happened to single files.
C9_FileFailureNotFatal ==
    /\ result.tag = "Err" => (pc = "done" /\ (~rootExists \/ sinkReply = "rejected"))
    /\ (pc = "done" /\ rootExists) =>
         /\ \A i \in DOMAIN entries : tpc[i] = "done" /\ outcome[i] # "pending"
         /\ FooterPresent(buffer)
         /\ sinkCalls = 1
         /\ sinkReply = "ok" => result.tag = "Ok"

C9_Witness ==
    /\ pc = "done"
    /\ result.tag = "Ok"
    /\ \E i, j \in DOMAIN entries :
         /\ i < j
         /\ outcome[i] \in {"metaerr", "procerr", "fmterr"}
         /\ outcome[j] = "text"

\* C10: a rejecting sink makes process return that failure, after every task
\* has finished and with the footer in the text it was given; an accepting
\* sink makes it return Ok with the final counts.
C10_SinkResult ==
    /\ sinkReply = "rejected" =>
         /\ result = Err("No clipboard utility found")
         /\ AllTasksDone
         /\ Len(sinkArg) >= 6
         /\ SubSeq(sinkArg, Len(sinkArg) - 2, Len(sinkArg))
              = FooterPieces(text_count, binary_count)
    /\ sinkReply = "ok" => result = Ok(text_count, binary_count)
    /\ sinkReply = "none" => result.tag # "Ok"

C10_Witness ==
    /\ sinkReply = "rejected"
    /\ pc = "done"
    /\ text_count + binary_count >= 1

\* The pieces of the section of path p in a document.
SectionOf(doc, p) == {a \in DOMAIN doc : doc[a][1] \in SectionKinds /\ doc[a][2] = p}

\* The tasks that have a length from metadata().
Measured == {i \in DOMAIN entries : fsize[i] > 0}

\* C11: a file longer than the size limit leaves process_file_parallel at
\* the size rule: it gets no section and reaches neither counter; a file
\* whose length equals the limit is not stopped by the size rule.
C11_SizeLimit ==
    /\ \A i \in Measured :
         /\ fsize[i] > max_size =>
              /\ outcome[i] = "oversize"
              /\ tpc[i] \in {"print_large", Held("print_large"), "inc", "done"}
              /\ SectionOf(buffer, entries[i]) = {}
         /\ fsize[i] = max_size => outcome[i] # "oversize"
    /\ Finished =>
         text_count + binary_count
             <= Cardinality({i \in Measured : fsize[i] <= max_size})

C11_Witness ==
    /\ pc = "done"
    /\ \E i, j \in Measured :
         /\ fsize[i] = max_size + 1
         /\ fsize[j] = max_size
         /\ outcome[j] = "text"
         /\ SectionOf(sinkArg, entries[j]) # {}
         /\ result = Ok(1, 0)

\* C12: a file that could not be read or decoded is a skip: it has no
\* section and is in neither counter, so binary_count counts only the files
\* classified binary.
C12_UnreadableIsSkip ==
    /\ \A i \in DOMAIN entries :
         outcome[i] = "unreadable" =>
             SectionOf(buffer, entries[i]) = {}
    /\ Finished =>
         binary_count = Cardinality({i \in DOMAIN entries : outcome[i] = "binary"})

-----------------------------------------------------------------------------
\* Strings
\*
\* A string is a sequence of characters; a character is a one-letter string.

\* char::to_lowercase on the letters the model uses.
LowerChar(c) ==
    CASE c = "A" -> "a"
      [] c = "B" -> "b"
      [] c = "C" -> "c"
      [] OTHER -> c

\* str::to_lowercase
to_lowercase(s) == [k \in DOMAIN s |-> LowerChar(s[k])]

\* str::starts_with
starts_with(s, p) == Len(p) <= Len(s) /\ SubSeq(s, 1, Len(p)) = p

\* str::contains
contains(s, p) == \E k \in 0..(Len(s) - Len(p)) : SubSeq(s, k + 1, k + Len(p)) = p

\* The absent Option value.
None == [tag |-> "None"]
Some(v) == [tag |-> "Some", val |-> v]

\* Positions of the dots of a file name.
Dots(name) == {k \in DOMAIN name : name[k] = "."}
LastDot(name) == CHOOSE k \in Dots(name) : \A m \in Dots(name) : m <= k

\* Path::extension of a path whose last component is `name`: nothing when
\* the name has no dot or its only dot is its first character, else what
\* follows the last dot.
extension(name) ==
    IF Dots(name) = {} \/ LastDot(name) = 1
    THEN None
    ELSE Some(SubSeq(name, LastDot(name) + 1, Len(name)))

-----------------------------------------------------------------------------
\* The content classifier (src/src/utils.rs) and TextProcessor::process_file
\*
\* File content is a sequence of runs <<b, n>>: n bytes of value b.
\* cls.attempts counts the classifications tried (is_text_file, is_text)
\* and cls.reads the times the file was opened to be read.

\* Largest number of runs in a file's content.
MaxRuns == 2

\* The bytes of the model: null, a control byte, newline, a printable ASCII
\* letter and a byte above the ASCII range.
ByteKinds == {0, 7, 10, 65, 200}

\* Run lengths: they put files on both sides of the 100-byte threshold
\* switch and of the 4096-byte sample window.
RunLens == {1, 19, 80, 4096}

Contents == UNION {[1..n -> ByteKinds \X RunLens] : n \in 0..MaxRuns}

RECURSIVE Size(_)
Size(d) == IF d = <<>> THEN 0 ELSE Head(d)[2] + Size(Tail(d))

\* The first n bytes of d (all of d when it is shorter).
RECURSIVE Take(_, _)
Take(d, n) ==
    IF d = <<>> \/ n = 0 THEN <<>>
    ELSE IF Head(d)[2] >= n THEN << <<Head(d)[1], n>> >>
    ELSE <<Head(d)>> \o Take(Tail(d), n - Head(d)[2])

\* How many bytes of d are in the set B.
RECURSIVE Count(_, _)
Count(d, B) ==
    IF d = <<>> THEN 0
    ELSE (IF Head(d)[1] \in B THEN Head(d)[2] ELSE 0) + Count(Tail(d), B)

\* What infer::get can answer for some bytes: nothing, or a MIME type, here
\* its top-level type and the words json, xml, text its name contains.
Mimes == {None,
          Some([top |-> "image", words |-> {}]),
          Some([top |-> "text", words |-> {"text"}]),
          Some([top |-> "application", words |-> {}]),
          Some([top |-> "application", words |-> {"json"}])}

is_binary_mime_type(m) ==
    \/ m.top = "image"
    \/ m.top = "video"
    \/ m.top = "audio"
    \/ /\ m.top = "application"
       /\ "json" \notin m.words
       /\ "xml" \notin m.words
       /\ "text" \notin m.words

\* The bytes the closure of line 31 accepts: b >= 32, or \n, \r, \t.
TextChars == {b \in ByteKinds : b >= 32 \/ b \in {10, 13, 9}}

window == 4096

\* The f32 comparison of line 37, text_chars / sample_size >= 0.95 (or 0.8),
\* in integers: for sample_size <= 4096 the quotient is never within one f32
\* step of a threshold without being equal to it.
Threshold(text_chars, sample_size) ==
    IF sample_size < 100
    THEN 100 * text_chars >= 95 * sample_size
    ELSE 100 * text_chars >= 80 * sample_size

is_text_NoNullCheck(data, mime) ==
    /\ data # <<>>
    /\ ~(mime # None /\ is_binary_mime_type(mime.val))
    /\ Threshold(Count(Take(data, window), TextChars), Size(Take(data, window)))

\* is_text(data), with `mime` the answer of infer::get(data).
is_text(data, mime) ==
    /\ data # <<>>
    /\ ~(mime # None /\ is_binary_mime_type(mime.val))
    /\ Count(Take(data, window), {0}) = 0
    /\ Threshold(Count(Take(data, window), TextChars), Size(Take(data, window)))

\* The members of the two extension lists that the model's letters spell.
is_common_text_extension(ext) == ext \in {<<"c">>, <<"h">>, <<"r">>}
is_common_binary_extension(ext) == ext \in {<<"a">>, <<"o">>}

\* The file names a classification is tried on.
ClsNames == {<<"x">>, <<"x", ".", "c">>, <<"x", ".", "C">>, <<"x", ".", "a">>,
             <<"x", ".", "b">>}

\* str::from_utf8 / read_to_string accept the content: a run of bytes of
\* value 200 is not UTF-8.
valid_utf8(data) == Count(data, {b \in ByteKinds : b >= 128}) = 0

\* is_text_file(path): the extension decides when it is on a list, else
\* the first 8192 bytes are read and is_text answers.
IsTextFile ==
    /\ cls.step = "start"
    /\ LET ext == extension(cls.name)
           low == IF ext = None THEN <<>> ELSE to_lowercase(ext.val)
       IN  IF ext # None /\ is_common_text_extension(low)
             THEN cls' = [cls EXCEPT !.step = "classified", !.attempts = @ + 1,
                                     !.is_text_result = "Ok(true)"]
           ELSE IF ext # None /\ is_common_binary_extension(low)
             THEN cls' = [cls EXCEPT !.step = "classified", !.attempts = @ + 1,
                                     !.is_text_result = "Ok(false)"]
           ELSE \E io \in {"ok", "err"}, mime \in Mimes :
                  IF io = "err"
                  THEN cls' = [cls EXCEPT !.step = "classified", !.attempts = @ + 1,
                                          !.reads = @ + 1, !.is_text_result = "Err"]
                  ELSE cls' = [cls EXCEPT
                                 !.step = "classified",
                                 !.attempts = @ + 1,
                                 !.reads = @ + 1,
                                 !.sampled = TRUE,
                                 !.mime = mime,
                                 !.is_text_result =
                                     IF is_text(Take(cls.data, 8192), mime)
                                     THEN "Ok(true)" ELSE "Ok(false)"]
    /\ UNCHANGED <<rootExists, sort, search, verbose, fmt, flt, fsize, pc,
                   entries, buffer, text_count,
                   binary_count, locks, tpc, tmp, outcome, evals, counts, sink, result>>

\* The match of process_file on is_text_result: what the call returns.
ReadContent ==
    /\ cls.step = "classified"
    /\ \E io \in {"ok", "err"}, mime \in Mimes :
         LET got ==
               CASE cls.is_text_result = "Ok(true)" ->
                      IF io = "ok" /\ valid_utf8(cls.data) THEN "Some" ELSE "None"
                 [] cls.is_text_result = "Ok(false)" -> "None"
                 [] OTHER ->
                      IF io = "ok" /\ is_text(cls.data, mime) /\ valid_utf8(cls.data)
                      THEN "Some" ELSE "None"
         IN  cls' = [cls EXCEPT
                       !.step = "done",
                       !.content = got,
                       !.reads = IF cls.is_text_result = "Ok(false)" THEN @ ELSE @ + 1,
                       !.attempts = IF cls.is_text_result = "Err" /\ io = "ok"
                                    THEN @ + 1 ELSE @,
                       !.sampled = @ \/ (cls.is_text_result = "Err" /\ io = "ok"),
                       !.mime = IF cls.is_text_result = "Err" /\ io = "ok"
                                THEN mime ELSE @]
    /\ UNCHANGED <<rootExists, sort, search, verbose, fmt, flt, fsize, pc,
                   entries, buffer, text_count,
                   binary_count, locks, tpc, tmp, outcome, evals, counts, sink, result>>

ClassifyInit ==
    /\ rootExists = TRUE
    /\ sort = FALSE
    /\ search = FALSE
    /\ verbose = FALSE
    /\ Constructed
    /\ fmt = NoCall
    /\ flt = NoCall
    /\ \E name \in ClsNames, data \in Contents :
         cls = [step |-> "start", name |-> name, data |-> data, sampled |-> FALSE,
                mime |-> None, is_text_result |-> "none", content |-> "none",
                attempts |-> 0, reads |-> 0]

ClassifyNext ==
    \/ IsTextFile
    \/ ReadContent

ClassifySpec == ClassifyInit /\ [][ClassifyNext]_vars

\* The sample the heuristic looks at: the first 4096 bytes of the file.
Sample(data) == Take(data, window)
HasNull(d) == Count(d, {0}) > 0

\* C13: a file whose sample holds a null byte is classified binary and
\* process_file returns no content for it, whatever the name of the file.
C13_NullByteIsBinary ==
    (cls.step \in {"classified", "done"} /\ HasNull(Sample(cls.data))) =>
        /\ cls.is_text_result # "Ok(true)"
        /\ cls.step = "done" => cls.content = "None"

\* C13 as the code has it: whenever the content is looked at (the extension
\* is on neither list, or is_text_file failed and the whole file was read),
\* a null byte in the first 4096 bytes makes the answer binary and
\* process_file returns no content.
C13_SampledNullIsBinary ==
    (cls.step \in {"classified", "done"} /\ cls.sampled /\ HasNull(Sample(cls.data))) =>
        /\ cls.is_text_result # "Ok(true)"
        /\ cls.step = "done" => cls.content = "None"

\* 80 letters and a null byte, no extension, nothing recognised by infer:
\* only the null rule stands between this file and a text section.
C13_Witness ==
    /\ cls.step = "done"
    /\ cls.sampled
    /\ extension(cls.name) = None
    /\ cls.data = << <<65, 80>>, <<0, 1>> >>
    /\ cls.mime = None
    /\ cls.is_text_result = "Ok(false)"
    /\ cls.content = "None"

-----------------------------------------------------------------------------
\* TextProcessor::format_text_content (src/src/text_processor/processor.rs)
\*
\* What the call appends to the buffer is a sequence of pieces, one per
\* push_str: [kind, no, text].  Line indices are 0-based as in the code.

\* Largest number of lines of a file's content.
MaxLines == 9

\* The lines files are made of, and the queries searched for.
LineKinds == {<<"a">>, <<"b">>}
Queries == {<<>>, <<"a">>, <<"A">>, <<"\n">>, <<"a", "\n">>}

RECURSIVE Join(_)
Join(ls) ==
    IF ls = <<>> THEN <<>>
    ELSE IF Len(ls) = 1 THEN Head(ls)
    ELSE Head(ls) \o <<"\n">> \o Join(Tail(ls))

\* File contents: lines joined by newlines, with or without a final newline.
FileTexts == {Join(ls) \o t : ls \in UNION {[1..n -> LineKinds] : n \in 0..MaxLines},
                             t \in {<<>>, <<"\n">>}}

StripCR(l) == IF l # <<>> /\ l[Len(l)] = "\r" THEN SubSeq(l, 1, Len(l) - 1) ELSE l

\* str::lines: the pieces between newlines, without the line terminators;
\* a final newline does not start a further line.
RECURSIVE lines(_)
lines(s) ==
    IF s = <<>> THEN <<>>
    ELSE LET nl == {k \in DOMAIN s : s[k] = "\n"}
         IN  IF nl = {} THEN <<StripCR(s)>>
             ELSE LET k == CHOOSE m \in nl : \A o \in nl : m <= o
                  IN  <<StripCR(SubSeq(s, 1, k - 1))>> \o lines(SubSeq(s, k + 1, Len(s)))

\* The test of lines 80-84 and 98-102, on the content or on one line.
Found(text, search_text, case_sensitive) ==
    IF case_sensitive
    THEN contains(text, search_text)
    ELSE contains(to_lowercase(text), to_lowercase(search_text))

usize_MAX == 2147483647

saturating_sub(a, b) == IF a >= b THEN a - b ELSE 0
Min(a, b) == IF a <= b THEN a ELSE b

\* A context of the matching line and the three lines after it only.
ContextAfterOnly(ls, i) ==
    LET start == i
        end == Min(i + 3, Len(ls) - 1)
    IN  [k \in 1..(end - start + 1) |-> <<start + k - 1, ls[start + k]>>]
            \o << <<usize_MAX, <<".", ".", ".">> >> >>

\* What one matching line i pushes: its context start..=end, then the mark.
Context(ls, i) ==
    LET start == saturating_sub(i, 3)
        end == Min(i + 3, Len(ls) - 1)
    IN  [k \in 1..(end - start + 1) |-> <<start + k - 1, ls[start + k]>>]
            \o << <<usize_MAX, <<".", ".", ".">> >> >>

\* found_lines after the loop of lines 97-116 has run from line i on.
RECURSIVE FoundLines(_, _, _, _)
FoundLines(ls, search_text, case_sensitive, i) ==
    IF i >= Len(ls) THEN <<>>
    ELSE (IF Found(ls[i + 1], search_text, case_sensitive) THEN Context(ls, i) ELSE <<>>)
             \o FoundLines(ls, search_text, case_sensitive, i + 1)

RECURSIVE WithKey(_, _)
WithKey(fl, key) ==
    IF fl = <<>> THEN <<>>
    ELSE (IF Head(fl)[1] = key THEN <<Head(fl)>> ELSE <<>>) \o WithKey(Tail(fl), key)

\* sort_by_key, a stable sort: key by key in ascending order, the elements
\* of one key in the order they were pushed.
RECURSIVE SortFrom(_, _)
SortFrom(fl, keys) ==
    IF keys = {} THEN <<>>
    ELSE LET key == CHOOSE k \in keys : \A o \in keys : k <= o
         IN  WithKey(fl, key) \o SortFrom(fl, keys \ {key})
sort_by_key(fl) == SortFrom(fl, {fl[k][1] : k \in DOMAIN fl})

\* dedup_by_key: of consecutive elements with one key the first stays.
RECURSIVE dedup_by_key(_)
dedup_by_key(fl) ==
    IF Len(fl) <= 1 THEN fl
    ELSE IF fl[1][1] = fl[2][1] THEN dedup_by_key(<<fl[1]>> \o Tail(Tail(fl)))
    ELSE <<fl[1]>> \o dedup_by_key(Tail(fl))

Sep == [kind |-> "sep", no |-> 0, text |-> <<>>]
Line(idx, text) == [kind |-> "line", no |-> idx + 1, text |-> text]

\* The loop of lines 123-142 over what is left of found_lines.
RECURSIVE Emit(_, _, _)
Emit(fl, prev_idx, first) ==
    IF fl = <<>> THEN <<>>
    ELSE LET idx == Head(fl)[1]
             line == Head(fl)[2]
         IN  IF idx = usize_MAX
             THEN <<Sep>> \o Emit(Tail(fl), prev_idx, TRUE)
             ELSE (IF ~first /\ idx > prev_idx + 1 THEN <<Sep>> ELSE <<>>)
                      \o <<Line(idx, line)>> \o Emit(Tail(fl), idx, FALSE)

\* What a search-mode call that got past line 88 appends.
Excerpt(content, search_text, case_sensitive) ==
    << [kind |-> "match_hdr", no |-> 0, text |-> <<>>] >>
        \o Emit(dedup_by_key(sort_by_key(
                    FoundLines(lines(content), search_text, case_sensitive, 0))), 0, TRUE)
        \o << [kind |-> "end", no |-> 0, text |-> <<>>] >>

\* What a call without search_text appends.
Whole(content) ==
    << [kind |-> "hdr", no |-> 0, text |-> <<>>],
       [kind |-> "content", no |-> 0, text |-> content],
       [kind |-> "end", no |-> 0, text |-> <<>>] >>

FormatTextContentLineTest ==
    /\ fmt.step = "start"
    /\ LET st == fmt.search_text
           found == \E l \in DOMAIN lines(fmt.content) :
                        Found(lines(fmt.content)[l], st.val, fmt.case_sensitive)
       IN  fmt' = [fmt EXCEPT
                     !.step = "done",
                     !.out = IF st = None THEN Whole(fmt.content)
                             ELSE IF found
                             THEN Excerpt(fmt.content, st.val, fmt.case_sensitive)
                             ELSE <<>>,
                     !.ret = st = None \/ found]
    /\ UNCHANGED <<rootExists, sort, search, verbose, cls, flt, fsize, pc,
                   entries, buffer, text_count,
                   binary_count, locks, tpc, tmp, outcome, evals, counts, sink, result>>

\* format_text_content(path, content, buffer)
FormatTextContent ==
    /\ fmt.step = "start"
    /\ LET st == fmt.search_text
           found == st # None /\ Found(fmt.content, st.val, fmt.case_sensitive)
       IN  fmt' = [fmt EXCEPT
                     !.step = "done",
                     !.out = IF st = None THEN Whole(fmt.content)
                             ELSE IF found
                             THEN Excerpt(fmt.content, st.val, fmt.case_sensitive)
                             ELSE <<>>,
                     !.ret = st = None \/ found]
    /\ UNCHANGED <<rootExists, sort, search, verbose, cls, flt, fsize, pc,
                   entries, buffer, text_count,
                   binary_count, locks, tpc, tmp, outcome, evals, counts, sink, result>>

FormatInit ==
    /\ rootExists = TRUE
    /\ sort = FALSE
    /\ search = FALSE
    /\ verbose = FALSE
    /\ Constructed
    /\ cls = NoCall
    /\ flt = NoCall
    /\ \E content \in FileTexts, st \in {None} \cup {Some(q) : q \in Queries},
          cs \in BOOLEAN :
         fmt = [step |-> "start", content |-> content, search_text |-> st,
                case_sensitive |-> cs, out |-> <<>>, ret |-> FALSE]

FormatNext == FormatTextContent

FormatSpec == FormatInit /\ [][FormatNext]_vars

\* The 0-based indices of the lines that contain the query.
MatchingLines ==
    IF fmt.search_text = None THEN {}
    ELSE {i \in 0..(Len(lines(fmt.content)) - 1) :
            Found(lines(fmt.content)[i + 1], fmt.search_text.val, fmt.case_sensitive)}

\* C14: in search mode a file none of whose lines contains the query gets
\* nothing written, not even a match header, and is reported not included.
\* (The empty query, which every file matches, is the case of C15.)
C14_NoMatchNoOutput ==
    (/\ fmt.step = "done"
     /\ fmt.search_text \notin {None, Some(<<>>)}
     /\ MatchingLines = {}) =>
        /\ fmt.out = <<>>
        /\ fmt.ret = FALSE

\* C15: with the empty query every content, the empty one and one-line
\* ones too, is reported included and gets a match header.
C15_EmptyQueryMatchesAll ==
    (fmt.step = "done" /\ fmt.search_text = Some(<<>>)) =>
        /\ fmt.ret = TRUE
        /\ fmt.out # <<>>
        /\ fmt.out[1].kind = "match_hdr"
        /\ MatchingLines = 0..(Len(lines(fmt.content)) - 1)

C15_Witness ==
    /\ fmt.step = "done"
    /\ fmt.search_text = Some(<<>>)
    /\ fmt.content = <<>>
    /\ fmt.ret = TRUE
    /\ Len(fmt.out) = 2

-----------------------------------------------------------------------------
\* The path filter: DirectoryTreeBuilder::build_directory_tree
\* (src/src/file_tree/builder.rs) and FileScanner::collect_files
\* (src/src/file_scanner/scanner.rs), on a root directory that holds one
\* chain of directories with a file at its end.

\* Largest depth of the file below the root.
MaxPathDepth == 3

\* config.path, and the names of the directories and of the file below it.
Roots == {<<".">>, <<"a">>}
DirNames == {<<"a">>, <<"a", "b">>, <<".", "g">>}
FileNames == {<<"x">>, <<"x", ".", "c">>, <<"x", ".", "C">>, <<".", "h">>, <<"a">>}

\* The file's path below the root: directory names, then the file name.
Chains == UNION {{d \o <<f>> : d \in [1..n -> DirNames], f \in FileNames} :
                   n \in 0..(MaxPathDepth - 1)}

RECURSIVE JoinWith(_, _)
JoinWith(ls, sep) ==
    IF ls = <<>> THEN <<>>
    ELSE IF Len(ls) = 1 THEN Head(ls)
    ELSE Head(ls) \o <<sep>> \o JoinWith(Tail(ls), sep)

\* str::split(c): the pieces between the occurrences of c.
RECURSIVE split(_, _)
split(s, c) ==
    LET at == {k \in DOMAIN s : s[k] = c}
    IN  IF at = {} THEN <<s>>
        ELSE LET k == CHOOSE m \in at : \A o \in at : m <= o
             IN  <<SubSeq(s, 1, k - 1)>> \o split(SubSeq(s, k + 1, Len(s)), c)

\* str::trim
RECURSIVE trim(_)
trim(s) ==
    IF s = <<>> THEN s
    ELSE IF Head(s) = " " THEN trim(Tail(s))
    ELSE IF s[Len(s)] = " " THEN trim(SubSeq(s, 1, Len(s) - 1))
    ELSE s

\* Vec::contains
InList(l, x) == \E k \in DOMAIN l : l[k] = x

\* The entry WalkDir yields at depth k of the chain: its path is the root
\* joined with the first k names; `names` keeps the names it was built from.
DirEntry(root, chain, k) ==
    [path |-> JoinWith(<<root>> \o SubSeq(chain, 1, k), "/"),
     file_name |-> IF k = 0 THEN root ELSE chain[k],
     depth |-> k,
     is_dir |-> k < Len(chain),
     names |-> <<root>> \o SubSeq(chain, 1, k)]

\* WalkDir::new(root).max_depth(max): the entries of depth 0..max.
WalkDir(root, chain, max) == [j \in 1..(Min(Len(chain), max) + 1) |-> DirEntry(root, chain, j - 1)]

\* WalkDir::new(root): every entry.
WalkDirAll(root, chain) == [j \in 1..(Len(chain) + 1) |-> DirEntry(root, chain, j - 1)]

\* Where config.include_extensions comes from: not given, the -e argument
\* or the array of the configuration file.
ExtArgs == {<<>>, <<"c">>, <<"C">>, <<"c", ",", " ", "b">>}
ExtArrays == {<<>>, << <<"c">> >>, << <<"C">> >>}
ExtSources ==
    {[src |-> "none"]}
        \cup {[src |-> "cli", arg |-> a] : a \in ExtArgs}
        \cup {[src |-> "file", arr |-> l] : l \in ExtArrays}

\* Config::from_matches, lines 55-58
from_arg(arg) ==
    LET parts == split(arg, ",")
    IN  Some([k \in DOMAIN parts |-> to_lowercase(trim(parts[k]))])

\* Config::load_from_file, lines 212-221
from_array(arr) == IF arr # <<>> THEN Some(arr) ELSE None

include_extensions(source) ==
    CASE source.src = "none" -> None
      [] source.src = "cli" -> from_arg(source.arg)
      [] OTHER -> from_array(source.arr)

\* The rule of lines 18 (builder.rs) and 18 (scanner.rs).
HiddenRule(entry, config) ==
    config.skip_hidden /\ starts_with(entry.file_name, <<".">>)

ExcludedRuleSubstring(entry, config) ==
    /\ config.exclude_paths # None
    /\ \E e \in DOMAIN config.exclude_paths.val :
         \E c \in DOMAIN split(entry.path, "/") :
             contains(split(entry.path, "/")[c], config.exclude_paths.val[e])

\* The rule of lines 22-30 (builder.rs) and 25-38 (scanner.rs).
ExcludedRule(entry, config) ==
    /\ config.exclude_paths # None
    /\ \E e \in DOMAIN config.exclude_paths.val :
         \E c \in DOMAIN split(entry.path, "/") :
             split(entry.path, "/")[c] = config.exclude_paths.val[e]

\* The extension of lines 40-43.
LowerExt(entry) ==
    IF extension(entry.file_name) = None THEN None
    ELSE Some(to_lowercase(extension(entry.file_name).val))

\* An allow-list that lets a file without extension pass.
AllowRuleMissingPasses(entry, config) ==
    /\ config.include_extensions # None
    /\ IF LowerExt(entry) = None THEN FALSE
       ELSE ~InList(config.include_extensions.val, LowerExt(entry).val)

\* The rule of lines 45-55.
AllowRule(entry, config) ==
    /\ config.include_extensions # None
    /\ IF LowerExt(entry) = None THEN TRUE
       ELSE ~InList(config.include_extensions.val, LowerExt(entry).val)

\* The rule of lines 57-67.
DenyRule(entry, config) ==
    /\ config.exclude_extensions # None
    /\ IF LowerExt(entry) = None THEN FALSE
       ELSE InList(config.exclude_extensions.val, LowerExt(entry).val)

should_include_in_tree(entry, config) ==
    /\ ~HiddenRule(entry, config)
    /\ ~ExcludedRule(entry, config)

\* glob::Pattern, as Config::from_matches and should_process_file use it.
\* A compiled pattern is a sequence of tokens; positions are 1-based.
PatternError == [tag |-> "PatternError"]
Compiled(tokens) == [tag |-> "Pattern", tokens |-> tokens]

\* How many '*' stand at position i and after it.
RECURSIVE Stars(_, _)
Stars(p, i) == IF i <= Len(p) /\ p[i] = "*" THEN 1 + Stars(p, i + 1) ELSE 0

\* Position of the first ']' at or after position i (0: none).
CloseAt(p, i) ==
    LET at == {k \in i..Len(p) : p[k] = "]"}
    IN  IF at = {} THEN 0 ELSE CHOOSE k \in at : \A o \in at : k <= o

\* The tokens of p from position i on; a token "Error" marks the place
\* where Pattern::new gives up.
RECURSIVE Tokens(_, _)
Tokens(p, i) ==
    IF i > Len(p) THEN <<>>
    ELSE CASE p[i] = "?" -> <<[t |-> "AnyChar"]>> \o Tokens(p, i + 1)
           [] p[i] = "*" ->
                LET count == Stars(p, i)
                    after == i + count
                IN  IF count > 2 THEN <<[t |-> "Error"]>>
                    ELSE IF count = 1 THEN <<[t |-> "AnySequence"]>> \o Tokens(p, after)
                    ELSE IF i = 1 \/ p[i - 1] = "/"
                    THEN IF after <= Len(p) /\ p[after] = "/"
                         THEN <<[t |-> "AnyRecursiveSequence"]>> \o Tokens(p, after + 1)
                         ELSE IF after = Len(p) + 1
                         THEN <<[t |-> "AnyRecursiveSequence"]>>
                         ELSE <<[t |-> "Error"]>>
                    ELSE <<[t |-> "Error"]>>
           [] p[i] = "[" ->
                IF i + 3 <= Len(p) /\ p[i + 1] = "!" /\ CloseAt(p, i + 3) # 0
                THEN <<[t |-> "AnyExcept",
                        cs |-> {p[k] : k \in (i + 2)..(CloseAt(p, i + 3) - 1)}]>>
                         \o Tokens(p, CloseAt(p, i + 3) + 1)
                ELSE IF i + 2 <= Len(p) /\ p[i + 1] # "!" /\ CloseAt(p, i + 2) # 0
                THEN <<[t |-> "AnyWithin",
                        cs |-> {p[k] : k \in (i + 1)..(CloseAt(p, i + 2) - 1)}]>>
                         \o Tokens(p, CloseAt(p, i + 2) + 1)
                ELSE <<[t |-> "Error"]>>
           [] OTHER -> <<[t |-> "Char", c |-> p[i]]>> \o Tokens(p, i + 1)

\* glob::Pattern::new
Pattern_new(p) ==
    IF \E k \in DOMAIN Tokens(p, 1) : Tokens(p, 1)[k].t = "Error"
    THEN PatternError
    ELSE Compiled(Tokens(p, 1))

\* Pattern::matches on a name that holds no path separator.
RECURSIVE matches_from(_, _)
matches_from(tokens, name) ==
    IF tokens = <<>> THEN name = <<>>
    ELSE LET tok == Head(tokens)
         IN  CASE tok.t = "AnySequence" ->
                    \E k \in 0..Len(name) :
                        matches_from(Tail(tokens), SubSeq(name, k + 1, Len(name)))
               [] tok.t = "AnyRecursiveSequence" ->
                    \/ matches_from(Tail(tokens), name)
                    \/ matches_from(Tail(tokens), <<>>)
               [] tok.t = "AnyChar" ->
                    name # <<>> /\ matches_from(Tail(tokens), Tail(name))
               [] tok.t = "AnyWithin" ->
                    /\ name # <<>>
                    /\ Head(name) \in tok.cs
                    /\ matches_from(Tail(tokens), Tail(name))
               [] tok.t = "AnyExcept" ->
                    /\ name # <<>>
                    /\ Head(name) \notin tok.cs
                    /\ matches_from(Tail(tokens), Tail(name))
               [] OTHER ->
                    /\ name # <<>>
                    /\ Head(name) = tok.c
                    /\ matches_from(Tail(tokens), Tail(name))

\* The closure of lines 76-81: a backslash before each listed character.
RECURSIVE escaped(_)
escaped(p) ==
    IF p = <<>> THEN <<>>
    ELSE (IF Head(p) \in {"*", "?", "[", "]", "{", "}", "(", ")"}
          THEN <<"\\", Head(p)>> ELSE <<Head(p)>>) \o escaped(Tail(p))

NOMATCH == <<"N", "O", "M", "A", "T", "C", "H">>

\* Which arm of lines 71-87 produced config.pattern.
PatternArm(p) ==
    IF Pattern_new(p) # PatternError THEN "given"
    ELSE IF Pattern_new(escaped(p)) # PatternError THEN "escaped"
    ELSE "fallback"

\* Config::from_matches, lines 70-88
from_pattern(p) ==
    CASE PatternArm(p) = "given" -> Some(Pattern_new(p))
      [] PatternArm(p) = "escaped" -> Some(Pattern_new(escaped(p)))
      [] OTHER -> Some(Pattern_new(NOMATCH))

\* The rule of lines 69-81.
PatternRule(entry, config) ==
    /\ config.pattern # None
    /\ ~matches_from(config.pattern.val.tokens, entry.file_name)

should_process_file(entry, config) ==
    /\ ~HiddenRule(entry, config)
    /\ ~ExcludedRule(entry, config)
    /\ ~AllowRule(entry, config)
    /\ ~DenyRule(entry, config)
    /\ ~PatternRule(entry, config)

RECURSIVE Keep(_, _)
Keep(es, ok) ==
    IF es = <<>> THEN <<>>
    ELSE (IF Head(es) \in ok THEN <<Head(es)>> ELSE <<>>) \o Keep(Tail(es), ok)

Range(f) == {f[k] : k \in DOMAIN f}

\* build_directory_tree: the entries that get a line of the listing.
build_directory_tree ==
    /\ flt.step = "start"
    /\ LET es == WalkDirAll(flt.config.path, flt.chain)
       IN  flt' = [flt EXCEPT
                     !.step = "tree",
                     !.tree = Keep(es, {e \in Range(es) :
                                          should_include_in_tree(e, flt.config)})]
    /\ UNCHANGED <<rootExists, sort, search, verbose, cls, fmt, fsize, pc,
                   entries, buffer,
                   text_count, binary_count, locks, tpc, tmp, outcome, evals, counts,
                   sink, result>>

\* collect_files: the files handed to content processing.
collect_files ==
    /\ flt.step = "tree"
    /\ LET es == WalkDir(flt.config.path, flt.chain, flt.config.max_depth)
       IN  flt' = [flt EXCEPT
                     !.step = "done",
                     !.files = Keep(es, {e \in Range(es) :
                                           ~e.is_dir /\ should_process_file(e, flt.config)})]
    /\ UNCHANGED <<rootExists, sort, search, verbose, cls, fmt, fsize, pc,
                   entries, buffer,
                   text_count, binary_count, locks, tpc, tmp, outcome, evals, counts,
                   sink, result>>

FilterInit ==
    /\ rootExists = TRUE
    /\ sort = FALSE
    /\ search = FALSE
    /\ verbose = FALSE
    /\ Constructed
    /\ cls = NoCall
    /\ fmt = NoCall
    /\ \E root \in Roots, chain \in Chains, max_depth \in 0..MaxPathDepth,
          skip_hidden \in BOOLEAN, exclude_paths \in {None, Some(<< <<"a">> >>)},
          source \in ExtSources, exclude_extensions \in {None, Some(<< <<"c">> >>)} :
         flt = [step |-> "start",
                chain |-> chain,
                source |-> source,
                pattern_arg |-> None,
                config |-> [path |-> root,
                            max_depth |-> max_depth,
                            skip_hidden |-> skip_hidden,
                            exclude_paths |-> exclude_paths,
                            include_extensions |-> include_extensions(source),
                            exclude_extensions |-> exclude_extensions,
                            pattern |-> None],
                tree |-> <<>>,
                files |-> <<>>]

FilterNext ==
    \/ build_directory_tree
    \/ collect_files

FilterSpec == FilterInit /\ [][FilterNext]_vars

\* The --pattern arguments tried, and the files they are tried on.
PatternArgs == {<<"a">>, <<"*">>, <<"a", "*", "*">>, <<"[">>, <<"[", "a">>, NOMATCH}
PatternFileNames == {<<"a">>, <<"[">>, <<"\\", "[">>, <<"a", "*", "*">>,
                     <<"x", ".", "c">>, NOMATCH}
PatternChains == UNION {{d \o <<f>> : d \in [1..n -> {<<"a">>}], f \in PatternFileNames} :
                          n \in 0..(MaxPathDepth - 1)}

\* The same walk, with a configuration that differs in --pattern alone.
PatternInit ==
    /\ rootExists = TRUE
    /\ sort = FALSE
    /\ search = FALSE
    /\ verbose = FALSE
    /\ Constructed
    /\ cls = NoCall
    /\ fmt = NoCall
    /\ \E root \in Roots, chain \in PatternChains, max_depth \in 0..MaxPathDepth,
          arg \in PatternArgs :
         flt = [step |-> "start",
                chain |-> chain,
                source |-> [src |-> "none"],
                pattern_arg |-> Some(arg),
                config |-> [path |-> root,
                            max_depth |-> max_depth,
                            skip_hidden |-> FALSE,
                            exclude_paths |-> None,
                            include_extensions |-> None,
                            exclude_extensions |-> None,
                            pattern |-> from_pattern(arg)],
                tree |-> <<>>,
                files |-> <<>>]

PatternSpec == PatternInit /\ [][FilterNext]_vars

\* Every entry below (and including) the root, listed or not.
AllEntries == Range(WalkDirAll(flt.config.path, flt.chain))
InTree(e) == e \in Range(flt.tree)
InFiles(e) == e \in Range(flt.files)

ExcludedNames ==
    IF flt.config.exclude_paths = None THEN {} ELSE Range(flt.config.exclude_paths.val)
HasExcludedName(e) == \E k \in DOMAIN e.names : e.names[k] \in ExcludedNames

\* C16: an entry is rejected by the excluded-component rule exactly when
\* one of the names its path is made of equals an excluded name; such an
\* entry, hence everything under an excluded directory, is in neither the
\* tree listing nor the file list, and a name that only contains an
\* excluded name keeps its entry in the listing.
C16_ExcludedComponent ==
    flt.step = "done" =>
        \A e \in AllEntries :
            /\ ExcludedRule(e, flt.config) <=> HasExcludedName(e)
            /\ HasExcludedName(e) => ~InTree(e) /\ ~InFiles(e)
            /\ (~HasExcludedName(e) /\ ~HiddenRule(e, flt.config)) => InTree(e)

\* ./ab/a/x.c with "a" excluded: ab/ is listed, a/ and the file under it
\* are not, and nothing but the excluded-component rule rejects the file.
C16_Witness ==
    /\ flt.step = "done"
    /\ flt.config.path = <<".">>
    /\ flt.chain = << <<"a", "b">>, <<"a">>, <<"x", ".", "c">> >>
    /\ flt.config.exclude_paths = Some(<< <<"a">> >>)
    /\ flt.config.include_extensions = None
    /\ flt.config.max_depth = 3
    /\ Len(flt.tree) = 2
    /\ flt.tree[2].file_name = <<"a", "b">>
    /\ flt.files = <<>>

\* C17: an entry deeper than max_depth is in neither the file list nor the
\* tree listing.
C17_DepthBothViews ==
    flt.step = "done" =>
        \A e \in AllEntries :
            e.depth > flt.config.max_depth => ~InFiles(e) /\ ~InTree(e)

\* C18: with max_depth 0 a file directly in the root directory that the
\* other rules let pass is collected, and no file of a subdirectory is.
C18_DepthZeroIsRootDirectory ==
    (flt.step = "done" /\ flt.config.max_depth = 0) =>
        \A e \in AllEntries :
            ~e.is_dir =>
                /\ (e.depth = 1 /\ should_process_file(e, flt.config)) => InFiles(e)
                /\ e.depth > 1 => ~InFiles(e)

\* The directories an entry lies under, the root apart.
DirsAbove(e) == {e.names[k] : k \in 2..(Len(e.names) - 1)}

\* C19: with skip_hidden nothing whose name begins with a dot, and no file
\* under a directory whose name begins with a dot, is in the tree listing
\* or in the file list.
C19_HiddenSkipped ==
    (flt.step = "done" /\ flt.config.skip_hidden) =>
        \A e \in Range(flt.tree) \cup Range(flt.files) :
            /\ ~starts_with(e.file_name, <<".">>)
            /\ ~e.is_dir => \A d \in DirsAbove(e) : ~starts_with(d, <<".">>)

\* The files only the extension rules can keep out of the file list.
ExtensionDecides ==
    {e \in AllEntries : /\ ~e.is_dir
                        /\ e.depth <= flt.config.max_depth
                        /\ ~HiddenRule(e, flt.config)
                        /\ ~ExcludedRule(e, flt.config)
                        /\ ~DenyRule(e, flt.config)}

\* An allow-list that is present but names no extension.
EmptyAllowList ==
    /\ flt.config.include_extensions # None
    /\ \A k \in DOMAIN flt.config.include_extensions.val :
         flt.config.include_extensions.val[k] = <<>>

\* C20: the allow-list rule applies only when the list is present and not
\* empty, and then rejects a file iff its lower-cased extension is not a
\* member; a list that is present but empty rejects no file.
C20_AllowList ==
    flt.step = "done" =>
        \A e \in ExtensionDecides :
            IF flt.config.include_extensions = None \/ EmptyAllowList
            THEN InFiles(e)
            ELSE ~InFiles(e) <=>
                     \/ LowerExt(e) = None
                     \/ LowerExt(e).val \notin Range(flt.config.include_extensions.val)

\* C21: whatever the --pattern argument, a configuration comes out; when
\* neither the argument nor its escaped form compiles, the pattern in
\* effect matches no file name and no file is collected.
C21_FallbackMatchesNothing ==
    /\ flt.pattern_arg # None => flt.config.pattern # None
    /\ (/\ flt.step = "done"
        /\ flt.pattern_arg # None
        /\ PatternArm(flt.pattern_arg.val) = "fallback") =>
           /\ \A e \in AllEntries :
                (~e.is_dir /\ e.depth <= flt.config.max_depth) => PatternRule(e, flt.config)
           /\ flt.files = <<>>

\* C22: process_file classifies a file once and never reads it again after
\* a read has failed.
C22_NoRetry ==
    cls.step = "done" =>
        /\ cls.attempts <= 1
        /\ cls.is_text_result = "Err" => cls.reads <= 1

-----------------------------------------------------------------------------
\* The locks of the parallel loop

\* The positions at which a task looks at the file: is_file and metadata
\* (lines 130-140), then process_file (line 152), which reads and classifies.
ReadsFile == {"stat", "process"}

\* C23: a task that is reading or classifying a file does not hold the buffer
\* lock, nor either counter's: the first lock() of process_file_parallel comes
\* after process_file has returned.
C23_NoLockDuringIO ==
    \A i \in Slots :
        tpc[i] \in ReadsFile => bufferLock # i /\ textLock # i /\ binaryLock # i

C23_Witness ==
    \E i, j \in Tasks :
        /\ i # j
        /\ tpc[i] = "process"
        /\ bufferLock = j
        /\ tpc[j] = "body"

-----------------------------------------------------------------------------
\* The content heuristic

\* The bytes a reader of "printable ASCII, newline, carriage return or tab"
\* takes to be text-like.
PrintableAscii == {b \in ByteKinds : b >= 32 /\ b <= 126}
TextLike == PrintableAscii \cup {b \in ByteKinds : b \in {10, 13, 9}}

\* The bytes is_text was called on by is_text_file, and its sample.
Examined == Sample(Take(cls.data, 8192))

\* C24: is_text answers Text for a null-free sample of n bytes, t of them
\* printable ASCII, newline, carriage return or tab, exactly when
\* 100 t >= 95 n (n < 100) or 100 t >= 80 n (n >= 100).
C24_TextLikeThreshold ==
    (/\ cls.step = "classified"
     /\ cls.sampled
     /\ ~(cls.mime # None /\ is_binary_mime_type(cls.mime.val))
     /\ Size(Examined) > 0
     /\ ~HasNull(Examined)) =>
        (cls.is_text_result = "Ok(true)"
            <=> Threshold(Count(Examined, TextLike), Size(Examined)))

-----------------------------------------------------------------------------
\* The search excerpt

\* The 0-based indices of the lines within three lines of a matching line.
InWindow ==
    LET last == Len(lines(fmt.content)) - 1
        matching == MatchingLines
    IN  {j \in 0..last : \E i \in matching : j >= i - 3 /\ j <= i + 3}

IsLine(piece) == piece.kind = "line"

\* The numbered lines of the excerpt, in the order they were pushed.
Emitted == SelectSeq(fmt.out, IsLine)

\* C25: for a file with a matching line the excerpt holds exactly the lines
\* of the windows [i-3, i+3] around the matching lines i, cut at the ends of
\* the file: each of them once, in ascending order, under its 1-based number
\* and with its own text, and no other line.
C25_ExcerptLines ==
    (fmt.step = "done" /\ fmt.search_text # None) =>
        LET ls == lines(fmt.content)
            ctx == InWindow
            emitted == Emitted
        IN  ctx # {} =>
              /\ fmt.ret = TRUE
              /\ Len(emitted) = Cardinality(ctx)
              /\ \A k \in DOMAIN emitted :
                   /\ emitted[k].no - 1 \in ctx
                   /\ emitted[k].text = ls[emitted[k].no]
              /\ \A k \in DOMAIN emitted :
                   k > 1 => emitted[k - 1].no < emitted[k].no

\* Two matches whose windows are cut by the two ends of a nine-line file and
\* leave the fifth line out.
C25_Witness ==
    /\ fmt.step = "done"
    /\ fmt.search_text = Some(<<"a">>)
    /\ Len(lines(fmt.content)) = 9
    /\ MatchingLines = {0, 8}
    /\ InWindow = (0..8) \ {4}
    /\ [k \in DOMAIN Emitted |-> Emitted[k].no] = <<1, 2, 3, 4, 6, 7, 8, 9>>

\* C26: in an excerpt a separator stands exactly where the next line pushed
\* is not the line after the one pushed before it: between two lines with a
\* gap, one separator; between contiguous lines, before the first line and
\* after the last line, none.
C26_SeparatorsAtGaps ==
    (/\ fmt.step = "done"
     /\ fmt.search_text # None
     /\ MatchingLines # {}) =>
        LET out == fmt.out
        IN  /\ \A k \in DOMAIN out :
                 out[k].kind = "sep" =>
                     /\ k > 1 /\ k < Len(out)
                     /\ out[k - 1].kind = "line"
                     /\ out[k + 1].kind = "line"
                     /\ out[k + 1].no > out[k - 1].no + 1
            /\ \A k \in DOMAIN out :
                 (k < Len(out) /\ out[k].kind = "line" /\ out[k + 1].kind = "line") =>
                     out[k + 1].no = out[k].no + 1

-----------------------------------------------------------------------------
\* Files without an extension

\* The files whose path has no extension.
NoExtension == {e \in AllEntries : ~e.is_dir /\ LowerExt(e) = None}

\* C27: a file without an extension is rejected by the allow-list rule
\* whenever an allow-list is configured, and is never rejected by the
\* deny-list rule: without an allow-list a deny-list does not keep it out of
\* the file list.
C27_NoExtension ==
    flt.step = "done" =>
        \A e \in NoExtension :
            /\ flt.config.include_extensions # None =>
                   AllowRule(e, flt.config) /\ ~InFiles(e)
            /\ ~DenyRule(e, flt.config)
            /\ (/\ flt.config.include_extensions = None
                /\ e.depth <= flt.config.max_depth
                /\ ~HiddenRule(e, flt.config)
                /\ ~ExcludedRule(e, flt.config)) => InFiles(e)

\* ./x with both lists naming "c": only the allow-list rule rejects it.
C27_Witness ==
    /\ flt.step = "done"
    /\ flt.chain = << <<"x">> >>
    /\ flt.config.max_depth = 1
    /\ flt.config.include_extensions = Some(<< <<"c">> >>)
    /\ flt.config.exclude_extensions = Some(<< <<"c">> >>)
    /\ \E e \in NoExtension :
         /\ AllowRule(e, flt.config)
         /\ ~DenyRule(e, flt.config)
         /\ ~HiddenRule(e, flt.config)
         /\ ~ExcludedRule(e, flt.config)
         /\ ~InFiles(e)

-----------------------------------------------------------------------------
\* Locks, counters and termination of the parallel loop

\* The locks task i holds.
HeldBy(i) ==
    {l \in {"buffer", "text_count", "binary_count", "progress"} :
        CASE l = "buffer" -> bufferLock = i
          [] l = "text_count" -> textLock = i
          [] l = "binary_count" -> binaryLock = i
          [] OTHER -> progressLock = i}

\* Lock order: what a task holds when it asks for a lock, and what it holds
\* once it has got it.
LockOrder(i) ==
    /\ tpc[i] = "lockbuf" => HeldBy(i) = {}
    /\ tpc[i] = "locktext" => HeldBy(i) = {"buffer"}
    /\ tpc[i] = "lockbin" => HeldBy(i) = {}
    /\ tpc[i] = "print_large" => HeldBy(i) = {}
    /\ tpc[i] = "print_text" => HeldBy(i) = {"buffer", "text_count"}
    /\ tpc[i] = "print_bin" => HeldBy(i) = {"binary_count"}
    /\ HeldBy(i) \in {{}, {"buffer"}, {"buffer", "text_count"},
                       {"buffer", "text_count", "progress"},
                       {"binary_count"}, {"binary_count", "progress"},
                       {"progress"}}

\* The positions of a task outside its match arm: before the first lock()
\* and after the guards of the arm are dropped.
OutsideArm == {"start", "stat", "process", "report", "inc", "done"}

\* How far process() is, and how far a task is: every step moves forward.
MainRank ==
    CASE pc = "init" -> 0
      [] pc = "collect" -> 1
      [] pc = "par" -> 2
      [] pc = "sink" -> 3
      [] OTHER -> 4

TaskRank(at) ==
    CASE at = "start" -> 0
      [] at = "stat" -> 1
      [] at = "process" -> 2
      [] at \in {"lockbuf", "lockbin"} -> 3
      [] at \in {"format", "readbin"} -> 4
      [] at \in {"body", "writebin"} -> 5
      [] at = "trail" -> 6
      [] at = "locktext" -> 7
      [] at = "readtext" -> 8
      [] at = "writetext" -> 9
      [] at \in WantsProgress -> 10
      [] at \in {Held(w) : w \in WantsProgress} -> 11
      [] at = "report" -> 12
      [] at = "inc" -> 13
      [] OTHER -> 14

\* A step forward: of process(), or of one task while the others stay.
Forward ==
    \/ MainRank' > MainRank
    \/ /\ MainRank' = MainRank
       /\ \E i \in Slots :
            /\ TaskRank(tpc'[i]) > TaskRank(tpc[i])
            /\ \A j \in Slots \ {i} : tpc'[j] = tpc[j]

\* No reachable state is a deadlock: as long as process() has not returned,
\* some step can be taken.
NoDeadlock == pc # "done" => ENABLED Next

\* C28: the tasks take their locks in one order (buffer, then text_count,
\* then progress; binary_count, then progress), hold none outside the match
\* arm and none when they end, the thread of process() holds the buffer only
\* when no task runs, no reachable state is a deadlock, and every step moves
\* process() or a task forward, so the run ends.
C28_NoDeadlock ==
    /\ [](/\ \A i \in Slots : LockOrder(i)
          /\ \A i \in Slots : tpc[i] \in OutsideArm => HeldBy(i) = {}
          /\ bufferLock = MainThread => (pc = "sink" /\ AllTasksDone)
          /\ NoDeadlock)
    /\ [][Forward]_vars

\* A verbose run: one task prints with the three locks of the text arm in
\* its hands, the other waits for the buffer.
C28_Witness ==
    \E i, j \in Tasks :
        /\ HeldBy(i) = {"buffer", "text_count", "progress"}
        /\ tpc[j] = "lockbuf"
        /\ ~ENABLED Task(j)

\* The sections of a document, by their headers.
Sections(doc) == Cardinality(Headers(doc))

\* C29: text_count is incremented with the buffer lock held, so whenever no
\* task holds the buffer lock text_count is the number of sections in the
\* buffer; a file that search excludes has no section and is in neither
\* counter.
C29_CountMatchesSections ==
    /\ \A i \in Slots : tpc[i] \in {"locktext", "readtext", "writetext"} => bufferLock = i
    /\ bufferLock \notin Tasks => text_count = Sections(buffer)
    /\ \A i \in Tasks : outcome[i] = "excluded" => SectionOf(buffer, entries[i]) = {}
    /\ Finished =>
         /\ text_count = Cardinality(TextBranch)
         /\ binary_count = Cardinality(BinaryBranch)

C29_Witness ==
    /\ pc = "par"
    /\ bufferLock = 0
    /\ text_count = 1
    /\ binary_count = 0
    /\ \E i, j \in Tasks :
         /\ outcome[i] = "excluded" /\ tpc[i] = "done"
         /\ outcome[j] = "text" /\ tpc[j] = "inc"
         /\ SectionOf(buffer, entries[j]) # {}
====
